---- MODULE Spec2Model ----
(***************************************************************************)
(* Model of the live-transcription front end of ai-interview-assistant:    *)
(*   - useWebSocketOptimized / useWebSocket : the ControlChannel           *)
(*     (frontend/src/hooks/useWebSocketLite.ts, useWebSocket.ts)           *)
(*   - useAudioCapture : the two transcription channels and their          *)
(*     utterance assemblers (frontend/src/hooks/useAudioCapture.ts)        *)
(*   - Interview.handleTranscript : the transcript publisher               *)
(*     (frontend/src/pages/Interview.tsx)                                  *)
(*                                                                         *)
(* A text is a sequence of tokens; the token " " is a blank, every other   *)
(* token stands for a run of non-blank characters.  The empty text <<>>    *)
(* is the JavaScript empty string.                                         *)
(***************************************************************************)
EXTENDS Integers, Sequences, FiniteSets, TLC

(***************************************************************************)
(* Bounds of the model                                                     *)
(***************************************************************************)
MaxCtlSockets == 6
MaxPubSockets == 2
MaxTurnEvents == 2
MaxPubEvents == 3
MaxStarts == 1
MaxClock == 2
MaxApiSockets == 2
MaxSends == 2
MaxSesSockets == 1
MaxSesSent == 3
MaxRestarts == 2
MaxFrames == 2
MaxFrameLog == 2
MaxDuoEvents == 2
MaxCtlMessages == 2
MaxMsgEvents == 2

(***************************************************************************)
(* Program constants                                                       *)
(***************************************************************************)
InitialReconnectDelay == 3000
MaxReconnectDelay == 30000
MaxReconnectAttempts == 5
NormalClosure == 1000
AbnormalClosure == 1006
SampleRate == 16000
FrameMs == 100

Channels == {"HR", "CANDIDATE"}
CloseCodes == {NormalClosure, AbnormalClosure}

(***************************************************************************)
(* Texts                                                                   *)
(***************************************************************************)
Blank == " "
TextEmpty == << >>
TextTellMe == <<"Tell", " ", "me">>
TextTellMeMore == <<"Tell", " ", "me", " ", "about", " ", "yourself">>

Min(a, b) == IF a <= b THEN a ELSE b

RECURSIVE TrimLeft(_)
TrimLeft(t) ==
  IF t = << >> THEN << >>
  ELSE IF Head(t) = Blank THEN TrimLeft(Tail(t)) ELSE t

RECURSIVE TrimRight(_)
TrimRight(t) ==
  IF t = << >> THEN << >>
  ELSE IF t[Len(t)] = Blank THEN TrimRight(SubSeq(t, 1, Len(t) - 1)) ELSE t

\* String.prototype.trim
Trim(t) == TrimRight(TrimLeft(t))

\* Array.prototype.join(' ') on a sequence of texts
RECURSIVE JoinBlank(_)
JoinBlank(ts) ==
  IF ts = << >> THEN << >>
  ELSE IF Len(ts) = 1 THEN ts[1]
  ELSE ts[1] \o <<Blank>> \o JoinBlank(Tail(ts))

\* String.prototype.toLowerCase on the speaker labels
ToLowerCase(speaker) == IF speaker = "HR" THEN "hr" ELSE "candidate"

\* JavaScript truthiness of a string
Truthy(t) == t # << >>

(***************************************************************************)
(* Messages of the transcription engine                                    *)
(***************************************************************************)
TurnOrders == {1, 2}
TranscriptTexts == {TextEmpty, TextTellMe, TextTellMeMore}

\* a Turn event of the engine: the four fields the handler destructures
\* (the engine formats a turn only once it has ended)
TurnEvents ==
  {e \in [type : {"Turn"}, turn_order : TurnOrders, transcript : TranscriptTexts,
          end_of_turn : BOOLEAN, turn_is_formatted : BOOLEAN] :
     e.turn_is_formatted => e.end_of_turn}

\* the two events of the guided first question: a partial, then the formatted final
EvTellMe ==
  [type |-> "Turn", turn_order |-> 1, transcript |-> TextTellMe,
   end_of_turn |-> FALSE, turn_is_formatted |-> FALSE]
EvTellMeMore ==
  [type |-> "Turn", turn_order |-> 1, transcript |-> TextTellMeMore,
   end_of_turn |-> TRUE, turn_is_formatted |-> TRUE]

\* any other event of the engine (Begin, Termination): only its type is read
OtherEvents == {[type |-> "Begin"]}

\* Turn events without the transcript and turn_order fields, and the first
\* without any of the four: destructuring yields undefined, which the
\* handler's conditions read as false (turn_order 0 stands for undefined; it
\* is only used when transcript is truthy)
MalformedEvents ==
  {[type |-> "Turn", turn_order |-> 0, transcript |-> TextEmpty,
    end_of_turn |-> b, turn_is_formatted |-> b] : b \in BOOLEAN}

\* the keys of an activeTurns object in the order Object.values visits them
\* (integer keys ascending), as a sequence
RECURSIVE KeysAscending(_)
KeysAscending(keys) ==
  IF keys = {} THEN << >>
  ELSE LET m == CHOOSE k \in keys : \A j \in keys : k <= j
       IN <<m>> \o KeysAscending(keys \ {m})

\* Object.values(activeTurns)
ObjectValues(turns) ==
  LET ks == KeysAscending(DOMAIN turns) IN [i \in 1..Len(ks) |-> turns[ks[i]]]

\* an assembler that appends to a slot where the code overwrites it
SetTurnAppending(turns, order, text) ==
  [k \in (DOMAIN turns) \cup {order} |->
     IF k # order THEN turns[k]
     ELSE IF order \in DOMAIN turns THEN turns[k] \o <<Blank>> \o text ELSE text]

\* activeTurns[turn_order] = transcript
SetTurn(turns, order, text) ==
  [k \in (DOMAIN turns) \cup {order} |-> IF k = order THEN text ELSE turns[k]]

\* {} : an object without keys
NoTurns == << >>

\* (blockTranscript + ' ' + activeText).trim()
DisplayTranscript(committed, turns) ==
  Trim(committed \o <<Blank>> \o JoinBlank(ObjectValues(turns)))

(***************************************************************************)
(* State                                                                   *)
(***************************************************************************)
VARIABLES
  \* ---- ControlChannel (useWebSocketOptimized / useWebSocket) ----
  sockets,               \* every control WebSocket created so far, in creation order
  wsRef,                 \* wsRef.current: index into sockets, 0 = null
  reconnectAttempts,     \* reconnectAttemptsRef.current
  reconnectDelay,        \* reconnectDelayRef.current (ms)
  pendingTimers,         \* reconnect timers armed by setTimeout and not yet fired
  timerLog,              \* the delay of every reconnect timer armed so far, in order
  isWebSocketConnected,  \* context.isWebSocketConnected
  outbox,                \* every message dispatched on a control socket, in order
  mounted,               \* the Interview page (and its hooks) is mounted
  disconnectCalled,      \* disconnect()/unmount cleanup ran and connect() was not called since
  lastCloseCode,         \* the code of the latest close event handled by handleClose (0: none)
  \* ---- useAudioCapture: one transcription channel per speaker ----
  assemblyAIToken,       \* assemblyAITokenRef.current is a non-empty token
  clock,                 \* the value Date.now() returns
  micRef,                \* hrMicRef / candidateMicRef .current
  audioSockets,          \* per channel, the readyState of every transcription socket created
  audioWsRef,            \* hrWsRef / candidateWsRef .current: index into audioSockets, 0 = null
  blockId,               \* hrBlockIdRef / candidateBlockIdRef .current (-1: the empty string)
  blockTranscript,       \* hrBlockTranscriptRef / candidateBlockTranscriptRef .current
  blockSent,             \* hrBlockSentRef / candidateBlockSentRef .current
  pendingPermission,     \* startHrRecording calls suspended at await requestPermission()
  isRecording,           \* useAudioCapture's isRecording state
  error,                 \* useAudioCapture's error state
  onPartial,             \* an onPartialTranscript callback was passed to useAudioCapture
  activeChannels,        \* the channels the page starts capture on in this run
  emitted,               \* every block handed to onPartialTranscript / onTranscript, in order
  turnLog,               \* per channel, the Turn events its onmessage handler has processed
  lastBlockTime,         \* lastBlockTimeRef.current, the one ref both onmessage handlers write
  \* ---- Interview.handleTranscript: the publisher ----
  transcripts,           \* context.transcripts
  domNodes,              \* the children appended to the transcript container
  forwardedIds,          \* the block id behind every transcript message in outbox, in order
  \* ---- history of the ControlChannel's interface ----
  timersSinceOpen,       \* reconnect timers armed since the latest onopen (or construction)
  lastCall,              \* the latest call of connect / send and what it did
  sendLog,               \* for every send(message) call: the socket state it found, its result
  \* ---- Interview page ----
  interviewState,        \* context.interviewState
  pageError,             \* the page's error state (setError)
  hrMicOn,               \* the page's hrMicOn state
  isSharing,             \* useMeetingRoom's isSharing: a screen stream is shared
  \* ---- capture graphs ----
  graphs,                \* per channel, capture graphs started by startRecording and not closed
  framesSent,            \* per channel, audio frames sent on a transcription socket
  \* ---- the worklet path of a capture graph ----
  workletAvailable,      \* addModule('/audio-processor.js') resolves in this deployment
  audioBufferQueue,      \* per channel, audioBufferQueue of the microphone object in the ref
  captured,              \* per channel, samples the worklet has posted so far
  frameLog,              \* per channel, every frame handed to onAudioCallback, in order
  captureStart,          \* per channel, the samples posted before the microphone object in the ref was created
  \* ---- what handleMessage writes besides the session state ----
  weakPoints,            \* context.weakPoints
  suggestedQuestions,    \* context.suggestedQuestions
  ctlLog                 \* every message event handleMessage has handled, in order

ctlVars == <<sockets, wsRef, reconnectAttempts, reconnectDelay, pendingTimers,
             timerLog, isWebSocketConnected, outbox, mounted, disconnectCalled,
             lastCloseCode>>

audVars == <<assemblyAIToken, clock, micRef, audioSockets, audioWsRef, blockId,
             blockTranscript, blockSent, pendingPermission, isRecording, error,
             onPartial, activeChannels, emitted, turnLog, lastBlockTime>>

pubVars == <<transcripts, domNodes, forwardedIds>>

apiVars == <<timersSinceOpen, lastCall, sendLog>>

sesVars == <<interviewState, pageError, hrMicOn, isSharing>>

capVars == <<graphs, framesSent>>

frmVars == <<workletAvailable, audioBufferQueue, captured, frameLog, captureStart>>

advVars == <<weakPoints, suggestedQuestions, ctlLog>>

vars == <<ctlVars, audVars, pubVars, apiVars, sesVars, capVars, frmVars, advVars>>

(***************************************************************************)
(* ControlChannel                                                          *)
(***************************************************************************)
\* new WebSocket(url): readyState CONNECTING; opened records whether a live
\* socket has reached OPEN (a socket that never opened can only fail)
NewSocket == [readyState |-> "CONNECTING", opened |-> FALSE]
ClosedSocket == [readyState |-> "CLOSED", opened |-> FALSE]

SocketIds == 1..Len(sockets)

\* a send() that also accepts a socket that is still CONNECTING
CurrentOpenOrConnecting ==
  wsRef # 0 /\ sockets[wsRef].readyState \in {"OPEN", "CONNECTING"}

\* wsRef.current && wsRef.current.readyState === WebSocket.OPEN
CurrentOpen == wsRef # 0 /\ sockets[wsRef].readyState = "OPEN"

\* a connect() that only looks for an OPEN socket
ConnectIsNoopWhenOpen ==
  wsRef # 0 /\ sockets[wsRef].readyState = "OPEN"

\* the guard of connect(): a socket exists and is OPEN or CONNECTING
ConnectIsNoop ==
  wsRef # 0 /\ sockets[wsRef].readyState \in {"OPEN", "CONNECTING"}

\* connect(): sockets and wsRef after the call
SocketsAfterConnect == IF ConnectIsNoop THEN sockets ELSE Append(sockets, NewSocket)
WsRefAfterConnect == IF ConnectIsNoop THEN wsRef ELSE Len(sockets) + 1

\* a close(1000) that leaves a socket that is still CONNECTING alone
CloseSocketIfOpen(s) ==
  IF s.readyState = "OPEN" THEN [s EXCEPT !.readyState = "CLOSING"] ELSE s

\* WebSocket.close(1000) on socket record s: OPEN and CONNECTING sockets start
\* closing, CLOSING and CLOSED sockets are left alone
CloseSocket(s) ==
  IF s.readyState \in {"OPEN", "CONNECTING"} THEN [s EXCEPT !.readyState = "CLOSING"] ELSE s

\* a handleClose that reconnects whatever the close code
ShouldReconnectAnyCode(code) ==
  reconnectAttempts < MaxReconnectAttempts

\* a handleClose that reconnects without counting its attempts
ShouldReconnectUnbounded(code) ==
  code # NormalClosure

\* the condition under which handleClose schedules a reconnect
ShouldReconnect(code) ==
  code # NormalClosure /\ reconnectAttempts < MaxReconnectAttempts

\* a backoff that grows by the initial delay where the code doubles
NextDelayLinear(d) == Min(d + InitialReconnectDelay, MaxReconnectDelay)

\* reconnectDelayRef.current = Math.min(reconnectDelayRef.current * 2, 30000)
NextDelay(d) == Min(d * 2, MaxReconnectDelay)

\* connect() called by the page (mount effect) or by any explicit caller
Connect(maxSockets) ==
  /\ mounted
  /\ ConnectIsNoop \/ Len(sockets) < maxSockets
  /\ sockets' = SocketsAfterConnect
  /\ wsRef' = WsRefAfterConnect
  /\ disconnectCalled' = FALSE
  /\ UNCHANGED <<reconnectAttempts, reconnectDelay, pendingTimers, timerLog,
                 isWebSocketConnected, outbox, mounted, lastCloseCode>>
  /\ UNCHANGED <<audVars, pubVars>>
  /\ lastCall' = [op |-> "connect", did |-> ~ConnectIsNoop]
  /\ UNCHANGED <<timersSinceOpen, sendLog, sesVars, capVars, frmVars, advVars>>

\* a reconnect timer armed by handleClose fires: setTimeout(() => connect(), delay)
ReconnectTimerFire(maxSockets) ==
  /\ pendingTimers > 0
  /\ ConnectIsNoop \/ Len(sockets) < maxSockets
  /\ pendingTimers' = pendingTimers - 1
  /\ sockets' = SocketsAfterConnect
  /\ wsRef' = WsRefAfterConnect
  /\ UNCHANGED <<reconnectAttempts, reconnectDelay, timerLog,
                 isWebSocketConnected, outbox, mounted, disconnectCalled, lastCloseCode>>
  /\ UNCHANGED <<audVars, pubVars>>
  /\ UNCHANGED <<apiVars, sesVars, capVars, frmVars, advVars>>

\* socket.onopen of control socket s
CtlOpen(s) ==
  /\ sockets[s].readyState = "CONNECTING"
  /\ sockets' = [sockets EXCEPT ![s].readyState = "OPEN", ![s].opened = TRUE]
  /\ isWebSocketConnected' = TRUE
  /\ reconnectAttempts' = 0
  /\ outbox' = Append(outbox, [type |-> "ping"])
  /\ UNCHANGED <<wsRef, reconnectDelay, pendingTimers, timerLog, mounted, disconnectCalled,
                 lastCloseCode>>
  /\ UNCHANGED <<audVars, pubVars>>
  /\ timersSinceOpen' = 0
  /\ UNCHANGED <<lastCall, sendLog, sesVars, capVars, frmVars, advVars>>

\* the close event of control socket s with the given code (preceded by the
\* error event when the connection failed): socket.onerror, then
\* socket.onclose -> handleCloseRef.current -> handleClose
CtlClose(s, code) ==
  /\ sockets[s].readyState # "CLOSED"
  /\ ~sockets[s].opened => code = AbnormalClosure
  /\ sockets' = [sockets EXCEPT ![s] = ClosedSocket]
  /\ lastCloseCode' = code
  /\ isWebSocketConnected' = FALSE
  /\ IF ShouldReconnect(code)
       THEN /\ reconnectAttempts' = reconnectAttempts + 1
            /\ pendingTimers' = pendingTimers + 1
            /\ timerLog' = Append(timerLog, reconnectDelay)
            /\ reconnectDelay' = NextDelay(reconnectDelay)
            /\ timersSinceOpen' = timersSinceOpen + 1
       ELSE UNCHANGED <<reconnectAttempts, pendingTimers, timerLog, reconnectDelay,
                        timersSinceOpen>>
  /\ UNCHANGED <<wsRef, outbox, mounted, disconnectCalled>>
  /\ UNCHANGED <<audVars, pubVars>>
  /\ UNCHANGED <<lastCall, sendLog, sesVars, capVars, frmVars, advVars>>

\* disconnect(): wsRef.current?.close(1000)
Disconnect ==
  /\ mounted
  /\ sockets' = IF wsRef = 0 THEN sockets
                ELSE [sockets EXCEPT ![wsRef] = CloseSocket(sockets[wsRef])]
  /\ disconnectCalled' = TRUE
  /\ UNCHANGED <<wsRef, reconnectAttempts, reconnectDelay, pendingTimers, timerLog,
                 isWebSocketConnected, outbox, mounted, lastCloseCode>>
  /\ UNCHANGED <<audVars, pubVars>>
  /\ UNCHANGED <<apiVars, sesVars, capVars, frmVars, advVars>>

\* readyState of the socket wsRef.current holds, "none" when the ref is null
CurrentState == IF wsRef = 0 THEN "none" ELSE sockets[wsRef].readyState

\* the message requestAnalysis passes to send
AnalysisRequest == [type |-> "request_analysis"]

\* send(message): dispatched on the current socket and true when it is OPEN,
\* dropped and false otherwise
Send(msg, maxSends) ==
  /\ Len(sendLog) < maxSends
  /\ outbox' = IF CurrentOpen THEN Append(outbox, msg) ELSE outbox
  /\ sendLog' = Append(sendLog, [state |-> CurrentState, ok |-> CurrentOpen])
  /\ lastCall' = [op |-> "send", did |-> CurrentOpen]
  /\ UNCHANGED <<sockets, wsRef, reconnectAttempts, reconnectDelay, pendingTimers,
                 timerLog, isWebSocketConnected, mounted, disconnectCalled,
                 lastCloseCode>>
  /\ UNCHANGED <<audVars, pubVars, timersSinceOpen, sesVars, capVars, frmVars, advVars>>

(***************************************************************************)
(* Publisher: Interview.handleTranscript                                   *)
(***************************************************************************)
PartialBlock(ch, id, text, now) ==
  [kind |-> "Partial", id |-> id, speaker |-> ch, text |-> text, timestamp |-> now]

FinalBlock(ch, id, text, now) ==
  [kind |-> "Final", id |-> id, speaker |-> ch, text |-> text, timestamp |-> now]

\* the entry handleTranscript passes to context.addTranscript
TranscriptEntry(b) ==
  [id |-> b.id, speaker |-> b.speaker, text |-> b.text, timestamp |-> b.timestamp,
   isFinal |-> TRUE]

\* the element handleTranscript appends to the transcript container
DomNode(b) == [speaker |-> b.speaker, text |-> b.text, timestamp |-> b.timestamp]

\* the message sendTranscript builds
TranscriptMessage(b) ==
  [type |-> "transcript",
   payload |-> [speaker |-> ToLowerCase(b.speaker), text |-> b.text,
                timestamp |-> b.timestamp]]

\* sendTranscript(speaker, text, timestamp) returns true: the text is not
\* blank and send() found the control socket OPEN
SendsTranscript(b, open) == Truthy(Trim(b.text)) /\ open

BlockIdOf(b) == b.id

\* document.getElementById('transcript-' + id): the first element of the
\* container carrying that id, 0 when there is none
ElementById(dom, id) ==
  LET hits == {i \in 1..Len(dom) : "id" \in DOMAIN dom[i] /\ dom[i].id = id} IN
  IF hits = {} THEN 0 ELSE CHOOSE i \in hits : \A j \in hits : i <= j

\* upsertTranscriptDOM(payload).  textClass: the text span of a new element is
\* given the class 'transcript-text' (it is in src/unnamed/part_009, it is not
\* in useWebSocketLite.ts); the update branch finds the text node by that
\* class and leaves the text alone when there is none.  A new element is
\* created without the class 'final'.
UpsertTranscriptDOM(dom, payload, container, textClass) ==
  LET at == ElementById(dom, payload.id) IN
  IF ~container THEN dom
  ELSE IF at # 0
    THEN [dom EXCEPT ![at] =
            [id |-> dom[at].id,
             speaker |-> dom[at].speaker,
             text |-> IF dom[at].textClass THEN payload.text ELSE dom[at].text,
             final |-> dom[at].final \/ payload.isFinal,
             textClass |-> dom[at].textClass]]
    ELSE Append(dom, [id |-> payload.id, speaker |-> payload.speaker,
                      text |-> payload.text, final |-> FALSE,
                      textClass |-> textClass])

\* handlePartialTranscript -> sendPartialTranscript applied to the Partial
\* blocks of partials (at most one per event), in the page that registers a
\* partial callback: a blank text is dropped, any other is upserted
HandlePartialTranscript(dom, partials, container) ==
  IF partials = << >> \/ ~Truthy(Trim(partials[1].text)) THEN dom
  ELSE UpsertTranscriptDOM(dom,
         [id |-> partials[1].id, speaker |-> partials[1].speaker,
          text |-> partials[1].text, isFinal |-> FALSE],
         container, TRUE)

\* the blocks of one event handed to onTranscript and onPartialTranscript
PublishedBlocksAll(partials, finals) == partials \o finals

\* the blocks of one event handed to onTranscript: the Final block only
PublishedBlocks(partials, finals) == finals

\* context.addTranscript applied to each entry of entries: newest first
AddTranscriptNewestFirst(list, entries) == entries \o list

\* context.addTranscript applied to each entry of entries in order:
\* setTranscripts(prev => [...prev, transcript])
AddTranscript(list, entries) == list \o entries

\* handleTranscript applied to each Final block of blocks in order, on the
\* container content dom; container: transcriptContainerRef.current is set;
\* open: CurrentOpen.  The page that registers a partial callback leaves the
\* container to upsertTranscriptDOM (src/unnamed/part_004, lines 75-92).
HandleTranscript(dom, blocks, container, open) ==
  LET sent == SelectSeq(blocks, LAMBDA b : SendsTranscript(b, open)) IN
  /\ domNodes' = IF container /\ ~onPartial
                 THEN dom \o [i \in 1..Len(blocks) |-> DomNode(blocks[i])]
                 ELSE dom
  /\ transcripts' = AddTranscript(transcripts,
                     [i \in 1..Len(blocks) |-> TranscriptEntry(blocks[i])])
  /\ outbox' = outbox \o [i \in 1..Len(sent) |-> TranscriptMessage(sent[i])]
  /\ forwardedIds' = forwardedIds \o [i \in 1..Len(sent) |-> BlockIdOf(sent[i])]

(***************************************************************************)
(* useAudioCapture                                                         *)
(***************************************************************************)
\* An Int16Array over captured audio: a view of len samples starting off
\* samples into an underlying buffer of size samples, whose first sample is
\* sample number base of the captured stream.
EmptyQueue == [base |-> 0, size |-> 0, off |-> 0, len |-> 0]

\* new Int16Array(event.data.audio_data): n samples posted by the worklet,
\* the first one being sample number pos of the stream
Chunk(pos, n) == [base |-> pos, size |-> n, off |-> 0, len |-> n]

\* mergeBuffers(lhs, rhs): a fresh array holding the elements of the view lhs
\* followed by those of rhs (rhs continues the stream where lhs ends)
MergeBuffers(lhs, rhs) ==
  [base |-> IF lhs.len = 0 THEN rhs.base + rhs.off ELSE lhs.base + lhs.off,
   size |-> lhs.len + rhs.len,
   off |-> 0,
   len |-> lhs.len + rhs.len]

\* a.subarray(begin, end): a view on the same underlying buffer
Subarray(a, begin, end) ==
  [base |-> a.base,
   size |-> a.size,
   off |-> a.off + Min(begin, a.len),
   len |-> Min(end, a.len) - Min(begin, a.len)]

\* new Uint8Array(a.buffer): the bytes of the whole underlying buffer of a,
\* whatever part of it the view a covers
FrameOf(a) == [first |-> a.base, samples |-> a.size, bytes |-> 2 * a.size]

\* Math.floor(audioContext.sampleRate * 0.1)
TotalSamples == SampleRate \div 10

\* (queue.length / audioContext.sampleRate) * 1000 >= 100
BufferFull(a) == a.len * 1000 >= FrameMs * SampleRate

\* one queue kept across the microphone objects of a channel
QueueAfterStartKept(ch) == audioBufferQueue[ch]

\* createMicrophone / createCandidateMicrophone: each call declares its own
\* queue, let audioBufferQueue = new Int16Array(0)
QueueAfterStart(ch) == EmptyQueue

\* the values a Date.now() call can return: time passed since the last read or not
Nows(t) == {t} \cup {u \in {t + 1} : u <= MaxClock}

NullMic == [kind |-> "null", recording |-> FALSE, activeTurns |-> NoTurns]
\* the object createMicrophone / createCandidateMicrophone returns
NewMic == [kind |-> "mic", recording |-> FALSE, activeTurns |-> NoTurns]
\* the plain object {} the onmessage handler stores when the ref is null
BareMic == [kind |-> "bare", recording |-> FALSE, activeTurns |-> NoTurns]

AudioSocketIds(ch) == 1..Len(audioSockets[ch])

TurnEventCount == Len(turnLog["HR"]) + Len(turnLog["CANDIDATE"])

StartCount(ch) ==
  Len(audioSockets[ch]) + (IF ch = "HR" THEN pendingPermission ELSE 0)

\* setAssemblyAIToken(token), called once the configuration fetch resolves
SetAssemblyAIToken ==
  /\ assemblyAIToken' = TRUE
  /\ UNCHANGED <<clock, micRef, audioSockets, audioWsRef, blockId, blockTranscript,
                 blockSent, pendingPermission, isRecording, error, onPartial,
                 activeChannels, emitted, turnLog, lastBlockTime>>
  /\ UNCHANGED <<ctlVars, pubVars>>
  /\ UNCHANGED <<apiVars, sesVars, capVars, frmVars, advVars>>

\* startHrRecording up to its await requestPermission()
StartHrRecording(maxStarts) ==
  /\ mounted
  /\ IF ~assemblyAIToken
       THEN /\ error' = "AssemblyAI token not configured"
            /\ UNCHANGED <<clock, micRef, blockId, blockTranscript, blockSent,
                           pendingPermission, audioBufferQueue, captureStart>>
       ELSE /\ StartCount("HR") < maxStarts
            /\ \E now \in Nows(clock) :
                 /\ clock' = now
                 /\ blockId' = [blockId EXCEPT !["HR"] = now]
            /\ error' = "null"
            /\ blockTranscript' = [blockTranscript EXCEPT !["HR"] = TextEmpty]
            /\ blockSent' = [blockSent EXCEPT !["HR"] = FALSE]
            /\ micRef' = [micRef EXCEPT !["HR"] = NewMic]
            /\ audioBufferQueue' = [audioBufferQueue EXCEPT !["HR"] = QueueAfterStart("HR")]
            /\ captureStart' = [captureStart EXCEPT !["HR"] = captured["HR"]]
            /\ pendingPermission' = pendingPermission + 1
  /\ UNCHANGED <<assemblyAIToken, audioSockets, audioWsRef, isRecording, onPartial,
                 activeChannels, emitted, turnLog, lastBlockTime>>
  /\ UNCHANGED <<ctlVars, pubVars>>
  /\ UNCHANGED <<apiVars, capVars, workletAvailable, captured, frameLog, advVars>>

\* requestPermission() settles and startHrRecording resumes: the socket is
\* created and isRecording set, or the catch block stores the error
HrPermission(granted) ==
  /\ pendingPermission > 0
  /\ pendingPermission' = pendingPermission - 1
  /\ IF granted
       THEN /\ audioSockets' = [audioSockets EXCEPT !["HR"] = Append(@, "CONNECTING")]
            /\ audioWsRef' = [audioWsRef EXCEPT !["HR"] = Len(audioSockets["HR"]) + 1]
            /\ isRecording' = TRUE
            /\ UNCHANGED error
       ELSE /\ error' = "Permission denied"
            /\ UNCHANGED <<audioSockets, audioWsRef, isRecording>>
  /\ UNCHANGED <<assemblyAIToken, clock, micRef, blockId, blockTranscript, blockSent,
                 onPartial, activeChannels, emitted, turnLog, lastBlockTime>>
  /\ UNCHANGED <<ctlVars, pubVars>>
  /\ UNCHANGED <<apiVars, capVars, frmVars, advVars>>

\* startCandidateRecording(screenStream): no suspension point
StartCandidateRecording(maxStarts) ==
  /\ mounted
  /\ IF ~assemblyAIToken
       THEN /\ error' = "AssemblyAI token not configured"
            /\ UNCHANGED <<clock, micRef, blockId, blockTranscript, blockSent,
                           audioSockets, audioWsRef, audioBufferQueue, captureStart>>
       ELSE /\ StartCount("CANDIDATE") < maxStarts
            /\ \E now \in Nows(clock) :
                 /\ clock' = now
                 /\ blockId' = [blockId EXCEPT !["CANDIDATE"] = now]
            /\ blockTranscript' = [blockTranscript EXCEPT !["CANDIDATE"] = TextEmpty]
            /\ blockSent' = [blockSent EXCEPT !["CANDIDATE"] = FALSE]
            /\ micRef' = [micRef EXCEPT !["CANDIDATE"] = NewMic]
            /\ audioBufferQueue' = [audioBufferQueue EXCEPT !["CANDIDATE"] = QueueAfterStart("CANDIDATE")]
            /\ captureStart' = [captureStart EXCEPT !["CANDIDATE"] = captured["CANDIDATE"]]
            /\ audioSockets' = [audioSockets EXCEPT !["CANDIDATE"] = Append(@, "CONNECTING")]
            /\ audioWsRef' =
                 [audioWsRef EXCEPT !["CANDIDATE"] = Len(audioSockets["CANDIDATE"]) + 1]
            /\ UNCHANGED error
  /\ UNCHANGED <<assemblyAIToken, pendingPermission, isRecording, onPartial,
                 activeChannels, emitted, turnLog, lastBlockTime>>
  /\ UNCHANGED <<ctlVars, pubVars>>
  /\ UNCHANGED <<apiVars, capVars, workletAvailable, captured, frameLog, advVars>>

\* onopen of transcription socket s of channel ch: the handler calls
\* micRef.current.startRecording, which throws a TypeError when the ref
\* holds null or a plain object.  Establishing the connection takes time.
AudioOpen(ch, s) ==
  /\ audioSockets[ch][s] = "CONNECTING"
  /\ clock < MaxClock
  /\ clock' = clock + 1
  /\ audioSockets' = [audioSockets EXCEPT ![ch][s] = "OPEN"]
  /\ micRef' = IF micRef[ch].kind = "mic"
                 THEN [micRef EXCEPT ![ch].recording = TRUE]
                 ELSE micRef
  /\ graphs' = IF micRef[ch].kind = "mic"
                 THEN [graphs EXCEPT ![ch] = @ + 1]
                 ELSE graphs
  /\ UNCHANGED <<assemblyAIToken, audioWsRef, blockId, blockTranscript, blockSent,
                 pendingPermission, isRecording, error, onPartial, activeChannels,
                 emitted, turnLog, lastBlockTime>>
  /\ UNCHANGED <<ctlVars, pubVars>>
  /\ UNCHANGED <<apiVars, sesVars, framesSent, frmVars, advVars>>

\* a channel that opens a new socket when one closes
SocketsAfterCloseReconnect(ch, s) ==
  [audioSockets EXCEPT ![ch] = Append([@ EXCEPT ![s] = "CLOSED"], "CONNECTING")]

\* the sockets of the hook after socket s of channel ch closed: the hook
\* registers no onclose handler and its onerror handler only stores an error
SocketsAfterClose(ch, s) == [audioSockets EXCEPT ![ch][s] = "CLOSED"]

\* a close handler that tears down the microphones of both channels
AudioCloseTearsDown(ch, s, failed) ==
  /\ audioSockets[ch][s] # "CLOSED"
  /\ failed => ch = "HR"
  /\ audioSockets' = [audioSockets EXCEPT ![ch][s] = "CLOSED"]
  /\ error' = IF failed THEN "HR Audio connection failed" ELSE error
  /\ micRef' = [c \in Channels |-> NullMic]
  /\ UNCHANGED <<assemblyAIToken, clock, audioWsRef, blockId, blockTranscript,
                 blockSent, pendingPermission, isRecording, onPartial, activeChannels,
                 emitted, turnLog, lastBlockTime>>
  /\ UNCHANGED <<ctlVars, pubVars>>
  /\ UNCHANGED <<apiVars, sesVars, capVars, frmVars, advVars>>

\* transcription socket s of channel ch closes; failed: an error event
\* precedes the close event (only the HR socket has an onerror handler)
AudioClose(ch, s, failed) ==
  /\ audioSockets[ch][s] # "CLOSED"
  /\ failed => ch = "HR"
  /\ audioSockets' = SocketsAfterClose(ch, s)
  /\ error' = IF failed THEN "HR Audio connection failed" ELSE error
  /\ UNCHANGED <<assemblyAIToken, clock, micRef, audioWsRef, blockId, blockTranscript,
                 blockSent, pendingPermission, isRecording, onPartial, activeChannels,
                 emitted, turnLog, lastBlockTime>>
  /\ UNCHANGED <<ctlVars, pubVars>>
  /\ UNCHANGED <<apiVars, sesVars, capVars, frmVars, advVars>>

\* the mic object the onmessage handler works on: the ref's object, or a
\* fresh plain object when the ref is null
MicForMessage(ch) == IF micRef[ch].kind = "null" THEN BareMic ELSE micRef[ch]

\* one microphone ref used by the handlers of both channels
MicRefAfterShared(ch, mic) == [c \in Channels |-> mic]

\* the handler of channel ch stores the object it worked on through its own
\* ref: hrMicRef in the HR handler, candidateMicRef in the Candidate handler
MicRefAfter(ch, mic) == [micRef EXCEPT ![ch] = mic]

\* if (transcript) activeTurns[turn_order] = transcript
TurnsAfter(turns, msg) ==
  IF Truthy(msg.transcript) THEN SetTurn(turns, msg.turn_order, msg.transcript) ELSE turns

\* a finalize branch that leaves the slots as they are
TurnsAfterFinalizeKept(turns) == turns

\* the finalize branch: activeTurns = {}
TurnsAfterFinalize(turns) == NoTurns

\* the handler's condition for calling onPartialTranscript
EmitsPartial(display) == Truthy(display) /\ onPartial

\* the handler's condition for sending the final transcript
Finalizes(ch, msg, display) ==
  msg.end_of_turn /\ msg.turn_is_formatted /\ Truthy(display) /\ ~blockSent[ch]

\* the value blockSentRef holds when the handler returns after finalizing
SentAfterFinalize == FALSE

\* onmessage of transcription socket s of channel ch
AudioMessage(ch, s, msg, maxEvents) ==
  /\ audioSockets[ch][s] = "OPEN"
  /\ IF msg.type # "Turn"
       THEN /\ UNCHANGED <<clock, micRef, blockId, blockTranscript, blockSent,
                           emitted, turnLog, lastBlockTime>>
            /\ UNCHANGED <<outbox, pubVars>>
       ELSE /\ TurnEventCount < maxEvents
            /\ turnLog' = [turnLog EXCEPT ![ch] = Append(@, msg)]
            /\ \E now \in Nows(clock) :
                 LET mic == MicForMessage(ch)
                     turns == TurnsAfter(mic.activeTurns, msg)
                     display == DisplayTranscript(blockTranscript[ch], turns)
                     partials == IF EmitsPartial(display)
                                   THEN <<PartialBlock(ch, blockId[ch], display, now)>>
                                   ELSE << >>
                     finals == IF Finalizes(ch, msg, display)
                                 THEN <<FinalBlock(ch, blockId[ch], display, now)>>
                                 ELSE << >>
                 IN /\ emitted' = emitted \o partials \o finals
                    /\ lastBlockTime' = IF Truthy(msg.transcript) THEN now ELSE lastBlockTime
                    /\ HandleTranscript(HandlePartialTranscript(domNodes, partials, mounted),
                                        PublishedBlocks(partials, finals),
                                        mounted, CurrentOpen)
                    /\ IF finals # << >>
                         THEN \E minted \in Nows(now) :
                                /\ clock' = minted
                                /\ micRef' = MicRefAfter(ch,
                                     [mic EXCEPT !.activeTurns = TurnsAfterFinalize(turns)])
                                /\ blockTranscript' =
                                     [blockTranscript EXCEPT ![ch] = TextEmpty]
                                /\ blockId' = [blockId EXCEPT ![ch] = minted]
                                /\ blockSent' = [blockSent EXCEPT ![ch] = SentAfterFinalize]
                         ELSE /\ clock' = now
                              /\ micRef' = MicRefAfter(ch, [mic EXCEPT !.activeTurns = turns])
                              /\ UNCHANGED <<blockId, blockTranscript, blockSent>>
  /\ UNCHANGED <<assemblyAIToken, audioSockets, audioWsRef, pendingPermission,
                 isRecording, error, onPartial, activeChannels>>
  /\ UNCHANGED <<sockets, wsRef, reconnectAttempts, reconnectDelay, pendingTimers,
                 timerLog, isWebSocketConnected, mounted, disconnectCalled,
                 lastCloseCode>>
  /\ UNCHANGED <<apiVars, sesVars, capVars, frmVars, advVars>>

\* stopHrRecording / stopCandidateRecording throw at micRef.current.stopRecording()
\* when the ref holds the plain object the onmessage handler stored
StopThrows(ch) == micRef[ch].kind = "bare"

MicAfterStop(ch) == IF StopThrows(ch) THEN micRef[ch] ELSE NullMic

\* step 1 of stop: stopRecording() closes the audio context of the mic object
\* the ref holds, if that object has one
GraphsAfterStop(ch) ==
  IF micRef[ch].kind = "mic" /\ micRef[ch].recording THEN graphs[ch] - 1 ELSE graphs[ch]

\* step 1 of stop: stopRecording() of a microphone object replaces its queue
\* by an empty array
QueueAfterStop(ch) ==
  IF micRef[ch].kind = "mic" THEN EmptyQueue ELSE audioBufferQueue[ch]

\* step 2 of stop: close() only when the socket is OPEN, then clear the ref
AudioSocketsAfterStop(ch) ==
  IF StopThrows(ch) \/ audioWsRef[ch] = 0 THEN audioSockets[ch]
  ELSE [audioSockets[ch] EXCEPT ![audioWsRef[ch]] = IF @ = "OPEN" THEN "CLOSING" ELSE @]

AudioWsRefAfterStop(ch) == IF StopThrows(ch) THEN audioWsRef[ch] ELSE 0

\* step 4 of stop: the text the final block is built from
FlushText(ch) == blockTranscript[ch]

\* step 4 of stop: the Final block flushed, if any
FlushBlocks(ch, now) ==
  IF ~StopThrows(ch) /\ Truthy(Trim(FlushText(ch)))
    THEN <<FinalBlock(ch, blockId[ch], FlushText(ch), now)>>
    ELSE << >>

\* stopHrRecording / stopCandidateRecording called by the page
StopRecording(ch) ==
  /\ mounted
  /\ micRef' = [micRef EXCEPT ![ch] = MicAfterStop(ch)]
  /\ graphs' = [graphs EXCEPT ![ch] = GraphsAfterStop(ch)]
  /\ audioBufferQueue' = [audioBufferQueue EXCEPT ![ch] = QueueAfterStop(ch)]
  /\ audioSockets' = [audioSockets EXCEPT ![ch] = AudioSocketsAfterStop(ch)]
  /\ audioWsRef' = [audioWsRef EXCEPT ![ch] = AudioWsRefAfterStop(ch)]
  /\ \E now \in Nows(clock) :
       /\ clock' = (IF FlushBlocks(ch, now) = << >> THEN clock ELSE now)
       /\ emitted' = emitted \o FlushBlocks(ch, now)
       /\ HandleTranscript(domNodes, FlushBlocks(ch, now), mounted, CurrentOpen)
  /\ UNCHANGED <<assemblyAIToken, blockId, blockTranscript, blockSent,
                 pendingPermission, isRecording, error, onPartial, activeChannels,
                 turnLog, lastBlockTime>>
  /\ UNCHANGED <<sockets, wsRef, reconnectAttempts, reconnectDelay, pendingTimers,
                 timerLog, isWebSocketConnected, mounted, disconnectCalled,
                 lastCloseCode>>
  /\ UNCHANGED <<apiVars, framesSent, workletAvailable, captured, frameLog, captureStart, advVars>>

\* the page unmounts: the cleanup of useWebSocketOptimized closes the control
\* socket with 1000 and clears wsRef, the cleanup of useAudioCapture stops
\* both channels (the container ref is already detached), and the page's own
\* effect cleanups call disconnect() and stopCandidateRecording()
Unmount ==
  /\ mounted
  /\ mounted' = FALSE
  /\ sockets' = IF wsRef = 0 THEN sockets
                ELSE [sockets EXCEPT ![wsRef] = CloseSocket(sockets[wsRef])]
  /\ wsRef' = 0
  /\ disconnectCalled' = TRUE
  /\ micRef' = [ch \in Channels |-> MicAfterStop(ch)]
  /\ graphs' = [ch \in Channels |-> GraphsAfterStop(ch)]
  /\ audioBufferQueue' = [ch \in Channels |-> QueueAfterStop(ch)]
  /\ audioSockets' = [ch \in Channels |-> AudioSocketsAfterStop(ch)]
  /\ audioWsRef' = [ch \in Channels |-> AudioWsRefAfterStop(ch)]
  /\ \E now \in Nows(clock) :
       LET flushed == FlushBlocks("HR", now) \o FlushBlocks("CANDIDATE", now) IN
       /\ clock' = (IF flushed = << >> THEN clock ELSE now)
       /\ emitted' = emitted \o flushed
       /\ HandleTranscript(domNodes, flushed, FALSE, FALSE)
  /\ UNCHANGED <<reconnectAttempts, reconnectDelay, pendingTimers, timerLog,
                 isWebSocketConnected, lastCloseCode>>
  /\ UNCHANGED <<apiVars, sesVars, framesSent, workletAvailable, captured, frameLog, captureStart, advVars>>
  /\ UNCHANGED <<assemblyAIToken, blockId, blockTranscript, blockSent,
                 pendingPermission, isRecording, error, onPartial, activeChannels,
                 turnLog, lastBlockTime>>

\* a capture graph of channel ch hands a 100 ms frame to the callback given to
\* startRecording: the frame is sent when the channel's socket ref holds an
\* OPEN socket and dropped otherwise.  Every callback of a channel reads the
\* same ref, whichever microphone object its graph belongs to.
AudioFrame(ch, maxFrames) ==
  /\ workletAvailable
  /\ graphs[ch] > 0
  /\ IF audioWsRef[ch] # 0 /\ audioSockets[ch][audioWsRef[ch]] = "OPEN"
       THEN /\ framesSent[ch] < maxFrames
            /\ framesSent' = [framesSent EXCEPT ![ch] = @ + 1]
       ELSE UNCHANGED framesSent
  /\ UNCHANGED <<ctlVars, audVars, pubVars, apiVars, sesVars, graphs, frmVars, advVars>>

\* the chunk sizes the worklet posts: one that does not divide the frame
\* size and one that does
ChunkSizes == {640, 1600}

\* the socket the frame callback finds in the channel's ref is OPEN
RefSocketOpen(ch) == audioWsRef[ch] # 0 /\ audioSockets[ch][audioWsRef[ch]] = "OPEN"

\* audioWorkletNode.port.onmessage of the graph of the microphone object in
\* the ref: n more samples are merged into the queue; once the queue holds
\* 100 ms, one frame is cut and handed to the callback, which sends it when
\* the channel's socket is OPEN
WorkletMessage(ch, n, maxFrames) ==
  /\ workletAvailable
  /\ micRef[ch].kind = "mic"
  /\ micRef[ch].recording
  /\ captured' = [captured EXCEPT ![ch] = @ + n]
  /\ LET merged == MergeBuffers(audioBufferQueue[ch], Chunk(captured[ch], n)) IN
       IF BufferFull(merged)
         THEN /\ Len(frameLog[ch]) < maxFrames
              /\ frameLog' = [frameLog EXCEPT ![ch] =
                                Append(@, FrameOf(Subarray(merged, 0, TotalSamples)))]
              /\ audioBufferQueue' = [audioBufferQueue EXCEPT ![ch] =
                                        Subarray(merged, TotalSamples, merged.len)]
              /\ framesSent' = IF RefSocketOpen(ch)
                                 THEN [framesSent EXCEPT ![ch] = @ + 1]
                                 ELSE framesSent
         ELSE /\ audioBufferQueue' = [audioBufferQueue EXCEPT ![ch] = merged]
              /\ UNCHANGED <<frameLog, framesSent>>
  /\ UNCHANGED <<ctlVars, audVars, pubVars, apiVars, sesVars, graphs, workletAvailable,
                 captureStart, advVars>>

(***************************************************************************)
(* Interview page: session lifecycle                                       *)
(***************************************************************************)
\* the messages startInterview / stopInterview pass to send (the token and
\* the mode read from localStorage are left out)
StartMessage == [type |-> "start"]
EndMessage == [type |-> "end"]

\* the control messages that move the session state
SessionMessages == {"session_started", "session_ended"}

\* the peer starts the closing handshake of control socket s: readyState
\* becomes CLOSING, the close event follows later
CtlClosing(s) ==
  /\ sockets[s].readyState = "OPEN"
  /\ sockets' = [sockets EXCEPT ![s].readyState = "CLOSING"]
  /\ UNCHANGED <<wsRef, reconnectAttempts, reconnectDelay, pendingTimers, timerLog,
                 isWebSocketConnected, outbox, mounted, disconnectCalled,
                 lastCloseCode>>
  /\ UNCHANGED <<audVars, pubVars, apiVars, sesVars, capVars, frmVars, advVars>>

\* Block ids and element ids are strings; the model numbers them: '' is -1,
\* `turn_${t}` is t, handleMessage's fallback `${t}` is FallbackId(t), and
\* BackendId is an id the backend put in a payload (NoId: it put none)
FallbackId(t) == MaxClock + 1 + t
BackendId == 2 * MaxClock + 3
NoId == -1

\* the payload of an inbound transcript message: id (or none), speaker as
\* the backend spells it, text, timestamp
TranscriptPayloads(text) ==
  {[id |-> i, speaker |-> "hr", text |-> text, timestamp |-> 0] :
     i \in {BackendId, NoId}}

\* (payload.speaker || 'UNKNOWN').toUpperCase()
ToUpperCase(speaker) == IF speaker = "hr" THEN "HR" ELSE "CANDIDATE"

\* event.data of a message event on a control socket: text that JSON.parse
\* rejects, or the JSON of an object with a type and a payload
InvalidJson == [json |-> FALSE]
CtlFrame(type, payload) == [json |-> TRUE, type |-> type, payload |-> payload]
CtlFrames ==
  {InvalidJson}
    \cup {CtlFrame(t, << >>) :
            t \in {"pong", "session_started", "session_ended", "ping"}}
    \cup {CtlFrame("partial_transcript_update", p) : p \in TranscriptPayloads(TextTellMe)}
    \cup {CtlFrame("new_transcript", p) : p \in TranscriptPayloads(TextTellMeMore)}
    \cup {CtlFrame("weak_points_updated", <<[description |-> TextTellMe]>>),
          CtlFrame("suggested_questions", <<TextTellMe, TextEmpty>>)}

\* the types handleMessage returns on before its switch
SilentTypes == {"pong"}

\* the cases of handleMessage's switch; every other type takes the default
\* branch, which logs
HandledTypes ==
  {"session_started", "session_ended", "partial_transcript_update",
   "new_transcript", "weak_points_updated", "suggested_questions"}

\* a pong dispatched as the acknowledgement of the session start
SwitchTypeHeartbeat(frame) ==
  IF ~frame.json THEN "none"
  ELSE IF frame.type = "pong" THEN "session_started"
  ELSE IF frame.type \notin HandledTypes THEN "none"
  ELSE frame.type

\* the case handleMessage's switch takes for a frame; "none": the handler
\* threw in JSON.parse, returned before the switch or took the default branch
SwitchType(frame) ==
  IF ~frame.json THEN "none"
  ELSE IF frame.type \in SilentTypes \/ frame.type \notin HandledTypes THEN "none"
  ELSE frame.type

\* setInterviewState in the session_started and session_ended cases
SessionStateAfter(type) ==
  CASE type = "session_started" -> "RUNNING"
    [] type = "session_ended" -> "ENDED"
    [] OTHER -> interviewState

\* the payload handleMessage passes to upsertTranscriptDOM and to addTranscript
InboundTranscript(payload, now, isFinal) ==
  [id |-> IF payload.id = NoId THEN FallbackId(now) ELSE payload.id,
   speaker |-> ToUpperCase(payload.speaker), text |-> payload.text,
   timestamp |-> payload.timestamp, isFinal |-> isFinal]

\* handleMessage(event) on control socket s: a frame JSON.parse rejects is
\* caught and logged, a silent type returns before the switch, a type
\* without a case is logged
CtlMessage(s, frame, maxMessages) ==
  LET type == SwitchType(frame)
      transcript == type \in {"partial_transcript_update", "new_transcript"}
      missingId == transcript /\ frame.payload.id = NoId
  IN
  /\ sockets[s].readyState = "OPEN"
  /\ Len(ctlLog) < maxMessages
  /\ ctlLog' = Append(ctlLog, frame)
  /\ interviewState' = SessionStateAfter(type)
  /\ \E nowDom \in (IF missingId THEN Nows(clock) ELSE {clock}) :
     \E nowCtx \in (IF missingId /\ type = "new_transcript" THEN Nows(nowDom) ELSE {nowDom}) :
       /\ clock' = nowCtx
       /\ domNodes' =
            IF transcript
              THEN UpsertTranscriptDOM(domNodes,
                     InboundTranscript(frame.payload, nowDom, type = "new_transcript"),
                     mounted, FALSE)
              ELSE domNodes
       /\ transcripts' =
            IF type = "new_transcript"
              THEN AddTranscript(transcripts,
                                 <<InboundTranscript(frame.payload, nowCtx, TRUE)>>)
              ELSE transcripts
  /\ weakPoints' =
       IF type = "weak_points_updated"
         THEN weakPoints \o [i \in 1..Len(frame.payload) |->
                               [index |-> i - 1,
                                description |-> frame.payload[i].description]]
         ELSE weakPoints
  /\ suggestedQuestions' =
       IF type = "suggested_questions"
         THEN suggestedQuestions \o
                SelectSeq([i \in 1..Len(frame.payload) |->
                             [index |-> i - 1, text |-> frame.payload[i]]],
                          LAMBDA q : Truthy(q.text))
         ELSE suggestedQuestions
  /\ UNCHANGED <<pageError, hrMicOn, isSharing, forwardedIds>>
  /\ UNCHANGED <<ctlVars, apiVars, capVars, frmVars>>
  /\ UNCHANGED <<assemblyAIToken, micRef, audioSockets, audioWsRef, blockId,
                 blockTranscript, blockSent, pendingPermission, isRecording, error,
                 onPartial, activeChannels, emitted, turnLog, lastBlockTime>>

\* handleMessage on control socket s for a session_started / session_ended message
CtlSessionMessage(s, type) ==
  /\ sockets[s].readyState = "OPEN"
  /\ interviewState' = (IF type = "session_started" THEN "RUNNING" ELSE "ENDED")
  /\ UNCHANGED <<pageError, hrMicOn, isSharing>>
  /\ UNCHANGED <<ctlVars, audVars, pubVars, apiVars, capVars, frmVars, advVars>>

\* handleStartHrMic up to the suspension of startHrRecording; without a token
\* startHrRecording stores its error and resolves, and the page sets hrMicOn
HandleStartHrMic(maxStarts) ==
  /\ ~hrMicOn
  /\ StartHrRecording(maxStarts)
  /\ hrMicOn' = ~assemblyAIToken
  /\ UNCHANGED <<interviewState, pageError, isSharing>>

\* startHrRecording resumes and resolves, granted or not: setHrMicOn(true)
HrMicStarted(granted) ==
  /\ HrPermission(granted)
  /\ hrMicOn' = TRUE
  /\ UNCHANGED <<interviewState, pageError, isSharing>>

\* handleStopHrMic: stopHrRecording(), then setHrMicOn(false) unless it threw
HandleStopHrMic ==
  /\ hrMicOn
  /\ StopRecording("HR")
  /\ hrMicOn' = (IF StopThrows("HR") THEN hrMicOn ELSE FALSE)
  /\ UNCHANGED <<interviewState, pageError, isSharing>>

\* handleSelectMeetingRoom: the screen picker resolves with a stream and the
\* candidate effect starts capture on it, or the picker is dismissed
HandleSelectMeetingRoom(picked, maxStarts) ==
  /\ ~isSharing
  /\ IF picked
       THEN /\ StartCandidateRecording(maxStarts)
            /\ isSharing' = TRUE
            /\ pageError' = ""
       ELSE /\ mounted
            /\ pageError' = "Failed to select room"
            /\ UNCHANGED isSharing
            /\ UNCHANGED <<ctlVars, audVars, pubVars, apiVars, capVars, frmVars, advVars>>
  /\ UNCHANGED <<interviewState, hrMicOn>>

\* stopMeetingRoom (the shared track ended) and the cleanup of the candidate effect
StopMeetingRoom ==
  /\ isSharing
  /\ StopRecording("CANDIDATE")
  /\ isSharing' = FALSE
  /\ UNCHANGED <<interviewState, pageError, hrMicOn>>

\* handleStartInterview, offered while the session is NOT_STARTED and the
\* button is enabled (canStartInterview)
HandleStartInterview ==
  /\ mounted
  /\ interviewState = "NOT_STARTED"
  /\ isSharing /\ hrMicOn
  /\ IF ~isWebSocketConnected
       THEN /\ pageError' = "Waiting for WebSocket connection"
            /\ UNCHANGED <<outbox, interviewState, lastCall>>
       ELSE /\ pageError' = ""
            /\ outbox' = IF CurrentOpen THEN Append(outbox, StartMessage) ELSE outbox
            /\ interviewState' = IF CurrentOpen THEN "RUNNING" ELSE interviewState
            /\ lastCall' = [op |-> "start", did |-> CurrentOpen]
  /\ UNCHANGED <<hrMicOn, isSharing, timersSinceOpen, sendLog>>
  /\ UNCHANGED <<sockets, wsRef, reconnectAttempts, reconnectDelay, pendingTimers,
                 timerLog, isWebSocketConnected, mounted, disconnectCalled,
                 lastCloseCode>>
  /\ UNCHANGED <<audVars, pubVars, capVars, frmVars, advVars>>

\* stopCandidateRecording is reached in handleStopInterview: stopHrRecording
\* did not throw
StopReached(ch) == ch = "HR" \/ ~StopThrows("HR")

\* handleStopInterview runs to its end: neither stop threw
StopsComplete == \A ch \in Channels : ~StopThrows(ch)

\* handleStopInterview, offered while the session is RUNNING
HandleStopInterview(maxSent) ==
  /\ mounted
  /\ interviewState = "RUNNING"
  /\ Len(outbox) < maxSent
  /\ lastCall' = [op |-> "end", did |-> CurrentOpen]
  /\ IF ~CurrentOpen
       THEN UNCHANGED <<outbox, sesVars, micRef, graphs, audioSockets, audioWsRef,
                        clock, emitted, pubVars, audioBufferQueue>>
       ELSE /\ interviewState' = "ENDED"
            /\ micRef' = [ch \in Channels |->
                            IF StopReached(ch) THEN MicAfterStop(ch) ELSE micRef[ch]]
            /\ graphs' = [ch \in Channels |->
                            IF StopReached(ch) THEN GraphsAfterStop(ch) ELSE graphs[ch]]
            /\ audioBufferQueue' = [ch \in Channels |->
                                      IF StopReached(ch) THEN QueueAfterStop(ch)
                                      ELSE audioBufferQueue[ch]]
            /\ audioSockets' = [ch \in Channels |->
                                  IF StopReached(ch) THEN AudioSocketsAfterStop(ch)
                                  ELSE audioSockets[ch]]
            /\ audioWsRef' = [ch \in Channels |->
                                IF StopReached(ch) THEN AudioWsRefAfterStop(ch)
                                ELSE audioWsRef[ch]]
            /\ \E now \in Nows(clock) :
                 LET flushed == FlushBlocks("HR", now) \o
                                (IF StopReached("CANDIDATE")
                                   THEN FlushBlocks("CANDIDATE", now) ELSE << >>)
                     sent == SelectSeq(flushed, LAMBDA b : SendsTranscript(b, TRUE))
                 IN /\ clock' = (IF flushed = << >> THEN clock ELSE now)
                    /\ emitted' = emitted \o flushed
                    /\ domNodes' = domNodes \o [i \in 1..Len(flushed) |-> DomNode(flushed[i])]
                    /\ transcripts' =
                         transcripts \o [i \in 1..Len(flushed) |-> TranscriptEntry(flushed[i])]
                    /\ outbox' = Append(outbox, EndMessage)
                                   \o [i \in 1..Len(sent) |-> TranscriptMessage(sent[i])]
                    /\ forwardedIds' =
                         forwardedIds \o [i \in 1..Len(sent) |-> BlockIdOf(sent[i])]
            /\ isSharing' = (IF StopsComplete THEN FALSE ELSE isSharing)
            /\ hrMicOn' = (IF StopsComplete THEN FALSE ELSE hrMicOn)
            /\ pageError' = (IF StopsComplete THEN "" ELSE pageError)
  /\ UNCHANGED <<timersSinceOpen, sendLog, framesSent, workletAvailable, captured, frameLog,
                 captureStart, advVars>>
  /\ UNCHANGED <<sockets, wsRef, reconnectAttempts, reconnectDelay, pendingTimers,
                 timerLog, isWebSocketConnected, mounted, disconnectCalled,
                 lastCloseCode>>
  /\ UNCHANGED <<assemblyAIToken, blockId, blockTranscript, blockSent,
                 pendingPermission, isRecording, error, onPartial, activeChannels,
                 turnLog, lastBlockTime>>

(***************************************************************************)
(* Specifications                                                          *)
(***************************************************************************)
Init ==
  /\ sockets = << >>
  /\ wsRef = 0
  /\ reconnectAttempts = 0
  /\ reconnectDelay = InitialReconnectDelay
  /\ pendingTimers = 0
  /\ timerLog = << >>
  /\ isWebSocketConnected = FALSE
  /\ outbox = << >>
  /\ mounted = TRUE
  /\ disconnectCalled = FALSE
  /\ lastCloseCode = 0
  /\ assemblyAIToken = FALSE
  /\ clock = 0
  /\ micRef = [ch \in Channels |-> NullMic]
  /\ audioSockets = [ch \in Channels |-> << >>]
  /\ audioWsRef = [ch \in Channels |-> 0]
  /\ blockId = [ch \in Channels |-> -1]
  /\ blockTranscript = [ch \in Channels |-> TextEmpty]
  /\ blockSent = [ch \in Channels |-> FALSE]
  /\ pendingPermission = 0
  /\ isRecording = FALSE
  /\ error = "null"
  /\ onPartial \in BOOLEAN
  /\ activeChannels \in SUBSET Channels
  /\ emitted = << >>
  /\ turnLog = [ch \in Channels |-> << >>]
  /\ lastBlockTime = 0
  /\ transcripts = << >>
  /\ domNodes = << >>
  /\ forwardedIds = << >>
  /\ timersSinceOpen = 0
  /\ lastCall = [op |-> "none", did |-> FALSE]
  /\ sendLog = << >>
  /\ interviewState = "NOT_STARTED"
  /\ pageError = ""
  /\ hrMicOn = FALSE
  /\ isSharing = FALSE
  /\ graphs = [ch \in Channels |-> 0]
  /\ framesSent = [ch \in Channels |-> 0]
  /\ workletAvailable \in BOOLEAN
  /\ audioBufferQueue = [ch \in Channels |-> EmptyQueue]
  /\ captured = [ch \in Channels |-> 0]
  /\ frameLog = [ch \in Channels |-> << >>]
  /\ captureStart = [ch \in Channels |-> 0]
  /\ weakPoints = << >>
  /\ suggestedQuestions = << >>
  /\ ctlLog = << >>

\* the ControlChannel
CtlNext(maxSockets) ==
  \/ Connect(maxSockets)
  \/ ReconnectTimerFire(maxSockets)
  \/ \E s \in SocketIds : CtlOpen(s)
  \/ \E s \in SocketIds, code \in CloseCodes : CtlClose(s, code)

\* the capture pipeline on the active channels: producers, transcription
\* sockets, assemblers and the publisher, fed engine messages from msgs
AudioNext(msgs, maxEvents) ==
  \/ SetAssemblyAIToken
  \/ "HR" \in activeChannels /\ StartHrRecording(MaxStarts) /\ UNCHANGED sesVars
  \/ \E granted \in BOOLEAN : HrPermission(granted) /\ UNCHANGED sesVars
  \/ "CANDIDATE" \in activeChannels /\ StartCandidateRecording(MaxStarts)
       /\ UNCHANGED sesVars
  \/ \E ch \in Channels : \E s \in AudioSocketIds(ch) : AudioOpen(ch, s)
  \/ \E ch \in Channels : \E s \in AudioSocketIds(ch), failed \in BOOLEAN :
       AudioClose(ch, s, failed)
  \/ \E ch \in Channels : \E s \in AudioSocketIds(ch), msg \in msgs :
       AudioMessage(ch, s, msg, maxEvents)
  \/ \E ch \in activeChannels : StopRecording(ch) /\ UNCHANGED sesVars

\* the events of Scenario A
PubEvents == {EvTellMe, EvTellMeMore}

\* the ControlChannel alone, through a full backoff schedule
InitCtl == Init /\ ~onPartial /\ activeChannels = {} /\ workletAvailable
NextCtl == CtlNext(MaxCtlSockets) \/ Disconnect \/ Unmount
SpecCtl == InitCtl /\ [][NextCtl]_vars

\* the ControlChannel with a caller of send(), through a drop and a reconnect
NextApi ==
  \/ CtlNext(MaxApiSockets)
  \/ Disconnect
  \/ Send(AnalysisRequest, MaxSends)
SpecApi == InitCtl /\ [][NextApi]_vars

\* the Interview page: session lifecycle over the ControlChannel, both
\* capture channels, no engine messages
InitSes == Init /\ ~onPartial /\ activeChannels = Channels /\ workletAvailable
NextSes ==
  \/ Connect(MaxSesSockets)
  \/ \E s \in SocketIds : CtlOpen(s)
  \/ \E s \in SocketIds : CtlClosing(s)
  \/ \E s \in SocketIds, code \in CloseCodes : CtlClose(s, code)
  \/ \E s \in SocketIds, type \in SessionMessages : CtlSessionMessage(s, type)
  \/ SetAssemblyAIToken
  \/ HandleStartHrMic(MaxStarts)
  \/ \E granted \in BOOLEAN : HrMicStarted(granted)
  \/ HandleStopHrMic
  \/ \E picked \in BOOLEAN : HandleSelectMeetingRoom(picked, MaxStarts)
  \/ StopMeetingRoom
  \/ \E ch \in Channels : \E s \in AudioSocketIds(ch) : AudioOpen(ch, s)
  \/ HandleStartInterview
  \/ HandleStopInterview(MaxSesSent)
SpecSes == InitSes /\ [][NextSes]_vars

\* one capture channel started, stopped and started again while its graphs
\* emit frames; no engine messages, the ControlChannel never connected
InitCap == Init /\ ~onPartial /\ Cardinality(activeChannels) = 1 /\ workletAvailable
NextCap ==
  \/ SetAssemblyAIToken
  \/ "HR" \in activeChannels /\ StartHrRecording(MaxRestarts) /\ UNCHANGED sesVars
  \/ \E granted \in BOOLEAN : HrPermission(granted) /\ UNCHANGED sesVars
  \/ "CANDIDATE" \in activeChannels /\ StartCandidateRecording(MaxRestarts)
       /\ UNCHANGED sesVars
  \/ \E ch \in Channels : \E s \in AudioSocketIds(ch) : AudioOpen(ch, s)
  \/ \E ch \in Channels : \E s \in AudioSocketIds(ch), failed \in BOOLEAN :
       AudioClose(ch, s, failed)
  \/ \E ch \in activeChannels : AudioFrame(ch, MaxFrames)
  \/ \E ch \in activeChannels : StopRecording(ch) /\ UNCHANGED sesVars
SpecCap == InitCap /\ [][NextCap]_vars

\* both capture channels at once with a partial callback registered, fed the
\* events of Scenario A and other engine messages, beside a ControlChannel
\* that connects and drops once
InitDuo == Init /\ onPartial /\ activeChannels = Channels /\ workletAvailable
NextDuo ==
  \/ Connect(MaxSesSockets)
  \/ \E s \in SocketIds : CtlOpen(s)
  \/ \E s \in SocketIds, code \in CloseCodes : CtlClose(s, code)
  \/ AudioNext(PubEvents \cup OtherEvents, MaxDuoEvents)
SpecDuo == InitDuo /\ [][NextDuo]_vars

\* one producer, with or without the worklet module, fed worklet chunks of
\* every size in ChunkSizes, stopped and started again
InitFrm == Init /\ ~onPartial /\ Cardinality(activeChannels) = 1
NextFrm ==
  \/ SetAssemblyAIToken
  \/ "HR" \in activeChannels /\ StartHrRecording(MaxRestarts) /\ UNCHANGED sesVars
  \/ \E granted \in BOOLEAN : HrPermission(granted) /\ UNCHANGED sesVars
  \/ "CANDIDATE" \in activeChannels /\ StartCandidateRecording(MaxRestarts)
       /\ UNCHANGED sesVars
  \/ \E ch \in Channels : \E s \in AudioSocketIds(ch) : AudioOpen(ch, s)
  \/ \E ch \in activeChannels, n \in ChunkSizes : WorkletMessage(ch, n, MaxFrameLog)
  \/ \E ch \in activeChannels : StopRecording(ch) /\ UNCHANGED sesVars
SpecFrm == InitFrm /\ [][NextFrm]_vars

\* one capture channel at a time with a partial callback registered, every
\* engine message, the ControlChannel never connected
InitAsm == Init /\ onPartial /\ Cardinality(activeChannels) = 1 /\ workletAvailable
NextAsm == AudioNext(TurnEvents \cup OtherEvents, MaxTurnEvents) \/ Unmount
SpecAsm == InitAsm /\ [][NextAsm]_vars

\* the page as Interview.tsx wires it (no partial callback): one capture
\* channel publishing over a ControlChannel that connects, drops and reconnects
InitPub == Init /\ ~onPartial /\ Cardinality(activeChannels) = 1 /\ workletAvailable
NextPub == CtlNext(MaxPubSockets) \/ AudioNext(PubEvents, MaxPubEvents) \/ Unmount
SpecPub == InitPub /\ [][NextPub]_vars

\* the page as Interview.tsx wires it: the Candidate channel fed the events of
\* Scenario A, other engine messages and Turn events without their fields,
\* beside a ControlChannel that delivers every kind of inbound frame
InitMsg == Init /\ ~onPartial /\ activeChannels = {"CANDIDATE"} /\ workletAvailable
NextMsg ==
  \/ Connect(MaxSesSockets)
  \/ \E s \in SocketIds : CtlOpen(s)
  \/ \E s \in SocketIds, code \in CloseCodes : CtlClose(s, code)
  \/ \E s \in SocketIds, frame \in CtlFrames : CtlMessage(s, frame, MaxCtlMessages)
  \/ SetAssemblyAIToken
  \/ StartCandidateRecording(MaxStarts) /\ UNCHANGED sesVars
  \/ \E ch \in Channels : \E s \in AudioSocketIds(ch) : AudioOpen(ch, s)
  \/ \E ch \in Channels : \E s \in AudioSocketIds(ch),
         msg \in PubEvents \cup OtherEvents \cup MalformedEvents :
       AudioMessage(ch, s, msg, MaxMsgEvents)
SpecMsg == InitMsg /\ [][NextMsg]_vars

(***************************************************************************)
(* Properties: inbound messages of the ControlChannel                      *)
(***************************************************************************)
\* frame is a message of the given type
IsType(frame, type) == frame.json /\ frame.type = type

\* the step is handleMessage handling a message of the given type
Handles(type) ==
  /\ Len(ctlLog') = Len(ctlLog) + 1
  /\ IsType(ctlLog'[Len(ctlLog')], type)

\* C26: an inbound pong on the ControlChannel changes no state: the session
\* state, the transcripts list, the render target, the weak points, the
\* suggested questions, the connection flag, the reconnect counters and
\* timers, the sockets and the messages sent all stay as they were
C26_PongChangesNothing ==
  [][Handles("pong") =>
       UNCHANGED <<interviewState, transcripts, domNodes, weakPoints,
                   suggestedQuestions, isWebSocketConnected, reconnectAttempts,
                   reconnectDelay, pendingTimers, sockets, wsRef, outbox,
                   pageError, clock>>]_vars

\* a pong was handled after the session had started and a Final block had
\* been published
C26_Witness ==
  /\ Len(ctlLog) = 2
  /\ IsType(ctlLog[1], "session_started")
  /\ IsType(ctlLog[2], "pong")
  /\ interviewState = "RUNNING"
  /\ isWebSocketConnected
  /\ transcripts # << >>

\* frame is a protocol error of the ControlChannel: not JSON, or a type
\* the handler has no case for
IsCtlProtocolError(frame) ==
  ~frame.json \/ frame.type \notin (SilentTypes \cup HandledTypes)

\* the step is handleMessage handling a protocol error
HandlesCtlProtocolError ==
  /\ Len(ctlLog') = Len(ctlLog) + 1
  /\ IsCtlProtocolError(ctlLog'[Len(ctlLog')])

\* the step is the onmessage handler of channel ch handling a Turn event
\* that lacks its fields
HandlesMalformedTurn(ch) ==
  /\ Len(turnLog'[ch]) = Len(turnLog[ch]) + 1
  /\ turnLog'[ch][Len(turnLog'[ch])] \in MalformedEvents

\* C27: protocol errors are ignored: an inbound control message that is not
\* JSON or has an unrecognized type, and an inbound engine event that is
\* malformed, leave the session, transcript, assembler and connection state
\* unchanged and emit no block
C27_ProtocolErrorsIgnored ==
  [][(HandlesCtlProtocolError \/ \E ch \in Channels : HandlesMalformedTurn(ch))
       => UNCHANGED <<interviewState, pageError, transcripts, domNodes, weakPoints,
                      suggestedQuestions, micRef, blockId, blockTranscript, blockSent,
                      emitted, outbox, sockets, wsRef, isWebSocketConnected,
                      reconnectAttempts, reconnectDelay, audioSockets, audioWsRef>>]_vars

(***************************************************************************)
(* Properties: the utterance assembler                                     *)
(***************************************************************************)
\* a Turn event that finalizes: end_of_turn and turn_is_formatted
IsFinalizing(e) == e.end_of_turn /\ e.turn_is_formatted

IsFinal(b) == b.kind = "Final"

\* the blocks channel ch has emitted, in order
BlocksOf(ch) == SelectSeq(emitted, LAMBDA b : b.speaker = ch)
FinalsOf(ch) == SelectSeq(BlocksOf(ch), IsFinal)

\* what a consumer sees of a block: its kind, text and speaker
Shown(b) == [kind |-> b.kind, text |-> b.text, speaker |-> b.speaker]

\* the text in flight on channel ch: what the next block would display
InFlightText(ch) == DisplayTranscript(blockTranscript[ch], micRef[ch].activeTurns)

\* t is a prefix of u
IsPrefix(t, u) == Len(t) <= Len(u) /\ SubSeq(u, 1, Len(t)) = t

\* C1: when the same finalizing Turn event (non-empty text) is delivered twice
\* in succession to a channel, that channel emits exactly one Final block in total.
C1_DuplicateFinalizeOnce ==
  \A ch \in Channels :
    (/\ Len(turnLog[ch]) = 2
     /\ turnLog[ch][1] = turnLog[ch][2]
     /\ IsFinalizing(turnLog[ch][1])
     /\ Truthy(turnLog[ch][1].transcript))
    => Len(FinalsOf(ch)) = 1

\* C3: a stop called while text is in flight (displayText non-empty, no
\* finalizing event received for it) emits exactly one Final block during the
\* stop, carrying the in-flight block id and the current displayText.
C3_StopFlushesInFlight ==
  [][\A ch \in Channels :
       (StopRecording(ch) /\ Truthy(InFlightText(ch)))
       => /\ Len(emitted') = Len(emitted) + 1
          /\ IsFinal(emitted'[Len(emitted')])
          /\ emitted'[Len(emitted')].id = blockId[ch]
          /\ emitted'[Len(emitted')].text = InFlightText(ch)]_vars

\* C4: for Turn events that all share one turn_order and whose texts never
\* shrink, a channel emits at most one Final block, none before an event with
\* end_of_turn and turn_is_formatted has been processed, and exactly one once
\* such an event with text has been processed.
C4_OneFinalPerTurn ==
  \A ch \in Channels :
    LET log == turnLog[ch] IN
    (/\ \A i, j \in 1..Len(log) : log[i].turn_order = log[j].turn_order
     /\ \A i \in 1..Len(log) - 1 : IsPrefix(log[i].transcript, log[i + 1].transcript))
    => /\ Len(FinalsOf(ch)) <= 1
       /\ Len(FinalsOf(ch)) = 1 =>
            \E i \in 1..Len(log) : IsFinalizing(log[i])
       /\ (\E i \in 1..Len(log) : IsFinalizing(log[i]) /\ Truthy(log[i].transcript))
            => Len(FinalsOf(ch)) = 1

\* the HR channel has processed exactly the two events of the first question
ScenarioA == turnLog["HR"] = <<EvTellMe, EvTellMeMore>>

\* C5 (as stated): after the partial "Tell me" and the formatted final "Tell me
\* about yourself" of turn 1, the HR channel has emitted exactly one Partial
\* block "Tell me" and then one Final block "Tell me about yourself".
C5_ScenarioA_Stated ==
  ScenarioA =>
    [i \in 1..Len(BlocksOf("HR")) |-> Shown(BlocksOf("HR")[i])] =
      << [kind |-> "Partial", text |-> TextTellMe, speaker |-> "HR"],
         [kind |-> "Final", text |-> TextTellMeMore, speaker |-> "HR"] >>

\* C5 (as the code behaves, with a partial callback registered): the two
\* events yield a Partial block "Tell me", a Partial block "Tell me about
\* yourself" and then one Final block "Tell me about yourself", all of speaker HR.
C5_ScenarioA ==
  (ScenarioA /\ onPartial) =>
    [i \in 1..Len(BlocksOf("HR")) |-> Shown(BlocksOf("HR")[i])] =
      << [kind |-> "Partial", text |-> TextTellMe, speaker |-> "HR"],
         [kind |-> "Partial", text |-> TextTellMeMore, speaker |-> "HR"],
         [kind |-> "Final", text |-> TextTellMeMore, speaker |-> "HR"] >>

C5_Witness ==
  /\ ScenarioA
  /\ onPartial
  /\ Len(BlocksOf("HR")) = 3
  /\ IsFinal(emitted[Len(emitted)])

(***************************************************************************)
(* Properties: the publisher                                               *)
(***************************************************************************)
TranscriptMessages == SelectSeq(outbox, LAMBDA m : m.type = "transcript")
FinalBlocks == SelectSeq(emitted, IsFinal)

\* C2: for any block id, at most one transcript message is dispatched on the
\* control socket.
C2_AtMostOnePerBlockId ==
  \A i, j \in 1..Len(forwardedIds) : forwardedIds[i] = forwardedIds[j] => i = j

\* C6: every Final block emitted results in exactly one transcript message on
\* the control socket, whatever the state of the socket when the block is emitted.
C6_EveryFinalForwardedOnce ==
  Len(TranscriptMessages) = Len(FinalBlocks)

\* the step is the onmessage handler of channel ch finalizing its block
FinalizeStep(ch) ==
  /\ Len(turnLog'[ch]) = Len(turnLog[ch]) + 1
  /\ Len(emitted') > Len(emitted)
  /\ IsFinal(emitted'[Len(emitted')])

\* C28: block ids are not reused: no block emitted after a Final block, on
\* either channel, carries that Final block's id, and the id minted when a
\* block is finalized differs from the id of the block just finalized
C28_BlockIdsNotReused ==
  /\ [](\A i, j \in 1..Len(emitted) :
          (i < j /\ IsFinal(emitted[i])) => emitted[j].id # emitted[i].id)
  /\ [][\A ch \in Channels : FinalizeStep(ch) => blockId'[ch] # blockId[ch]]_vars

\* the text in the slot of turn order k ('' when the key is absent)
SlotText(turns, k) == IF k \in DOMAIN turns THEN turns[k] ELSE TextEmpty

\* the step is the onmessage handler of channel ch handling a Turn event
\* without finalizing
MergeStep(ch) ==
  /\ Len(turnLog'[ch]) = Len(turnLog[ch]) + 1
  /\ ~FinalizeStep(ch)

\* C32: after a Turn event is processed, the slot of its turn_order holds its
\* text, whatever the text (last write wins, the empty text included), and
\* the block emitted for the event carries trim(committed + " " + the slots
\* joined by " " in ascending turn order)
C32_DisplayText ==
  [][\A ch \in Channels :
       MergeStep(ch) =>
         LET msg == turnLog'[ch][Len(turnLog'[ch])] IN
         /\ SlotText(micRef'[ch].activeTurns, msg.turn_order) = msg.transcript
         /\ \A i \in Len(emitted) + 1..Len(emitted') :
              emitted'[i].text =
                DisplayTranscript(blockTranscript'[ch], micRef'[ch].activeTurns)]_vars

\* C33: partials precede their Final and share its id: a Final block is
\* preceded by a Partial block of its channel with its id whenever a partial
\* callback is registered, and no Partial block emitted after a Final block
\* carries that Final block's id
C33_PartialsPrecedeFinal ==
  \A j \in 1..Len(emitted) :
    IsFinal(emitted[j]) =>
      /\ onPartial /\ Len(turnLog[emitted[j].speaker]) > 0 =>
           \E i \in 1..(j - 1) :
             /\ ~IsFinal(emitted[i])
             /\ emitted[i].speaker = emitted[j].speaker
             /\ emitted[i].id = emitted[j].id
      /\ \A k \in (j + 1)..Len(emitted) :
           ~IsFinal(emitted[k]) => emitted[k].id # emitted[j].id

\* C34: reset after finalize: when the handler of a channel has emitted a
\* Final block, the slots and the committed text of the channel are empty,
\* and the blocks emitted for an event that finds them empty carry the text
\* of that event alone
C34_ResetAfterFinalize ==
  [][\A ch \in Channels :
       /\ FinalizeStep(ch) =>
            /\ micRef'[ch].activeTurns = NoTurns
            /\ blockTranscript'[ch] = TextEmpty
       /\ ( /\ Len(turnLog'[ch]) = Len(turnLog[ch]) + 1
            /\ micRef[ch].activeTurns = NoTurns
            /\ blockTranscript[ch] = TextEmpty ) =>
            \A i \in Len(emitted) + 1..Len(emitted') :
              emitted'[i].text = Trim(turnLog'[ch][Len(turnLog'[ch])].transcript)]_vars

\* a channel finalized "Tell me about yourself" and the next block it
\* emitted, for a later turn, carries "Tell me" alone
C34_Witness ==
  /\ Len(emitted) = 3
  /\ IsFinal(emitted[2])
  /\ emitted[2].text = TextTellMeMore
  /\ ~IsFinal(emitted[3])
  /\ emitted[3].speaker = emitted[2].speaker
  /\ emitted[3].text = TextTellMe

(***************************************************************************)
(* Properties: the transcripts list and the render target                  *)
(***************************************************************************)
\* the entries of transcripts the publisher wrote for channel ch: those
\* carrying a block id (inbound entries carry a backend or a fallback id)
PublishedEntries(ch) ==
  SelectSeq(transcripts, LAMBDA e : e.speaker = ch /\ e.id <= MaxClock)

\* C29: the transcripts list is append-only and arrival-ordered: every step
\* leaves the entries it found in place, unmodified and in order (a partial
\* update adds none), and the entries the publisher wrote for a channel are
\* that channel's Final blocks in the order of their emission
C29_TranscriptsAppendOnly ==
  /\ [][IsPrefix(transcripts, transcripts')]_vars
  /\ [][Handles("partial_transcript_update") => transcripts' = transcripts]_vars
  /\ [](\A ch \in Channels :
          PublishedEntries(ch) =
            [i \in 1..Len(FinalsOf(ch)) |-> TranscriptEntry(FinalsOf(ch)[i])])

\* the list holds an inbound entry followed by two Final blocks of the
\* Candidate channel, and a partial update for the inbound entry's id was
\* handled after the entry was added
C29_Witness ==
  /\ Len(transcripts) = 3
  /\ transcripts[1].id = BackendId
  /\ Len(PublishedEntries("CANDIDATE")) = 2
  /\ Len(ctlLog) = 2
  /\ IsType(ctlLog[1], "new_transcript")
  /\ IsType(ctlLog[2], "partial_transcript_update")
  /\ ctlLog[2].payload.id = BackendId

\* the blocks the step emits
NewBlocks == SubSeq(emitted', Len(emitted) + 1, Len(emitted'))

\* the messages the step dispatches on the ControlChannel
NewMessages == SubSeq(outbox', Len(outbox) + 1, Len(outbox'))

\* C30: Partial blocks are render-only: a step that processes a Partial block
\* puts the block's text in the render target under the block's id, adds to
\* the transcripts list nothing but the entry of the Final block emitted in
\* the same step, if any, and dispatches on the ControlChannel nothing but
\* that Final block's transcript message
C30_PartialRenderOnly ==
  [][LET partials == SelectSeq(NewBlocks, LAMBDA b : ~IsFinal(b))
         finals == SelectSeq(NewBlocks, IsFinal)
     IN partials # << >> =>
          /\ \A i \in 1..Len(partials) :
               LET at == ElementById(domNodes', partials[i].id) IN
               at # 0 /\ domNodes'[at].text = partials[i].text
          /\ Len(domNodes') <= Len(domNodes) + 1
          /\ transcripts' =
               transcripts \o [i \in 1..Len(finals) |-> TranscriptEntry(finals[i])]
          /\ Len(NewMessages) <= Len(finals)
          /\ \A i \in 1..Len(NewMessages) :
               \E j \in 1..Len(finals) : NewMessages[i] = TranscriptMessage(finals[j])]_vars

\* two Partial blocks of one channel were processed with the control socket
\* open: one element in the render target, nothing in the transcripts list,
\* nothing dispatched but the ping of onopen
C30_Witness ==
  /\ CurrentOpen
  /\ Len(emitted) = 2
  /\ \A i \in 1..2 : ~IsFinal(emitted[i]) /\ emitted[i].speaker = "HR"
  /\ Len(domNodes) = 1
  /\ domNodes[1].text = emitted[2].text
  /\ transcripts = << >>
  /\ outbox = <<[type |-> "ping"]>>

\* the elements of the render target carrying the id
ElementsById(dom, id) == {i \in 1..Len(dom) : "id" \in DOMAIN dom[i] /\ dom[i].id = id}

\* the step is handleMessage upserting the payload of an inbound transcript
\* message that carries an id, with the container set
UpsertStep ==
  /\ mounted
  /\ Handles("partial_transcript_update") \/ Handles("new_transcript")
  /\ ctlLog'[Len(ctlLog')].payload.id # NoId

\* after an upsert the elements carrying the id show the text of the payload
UpsertShowsText ==
  [][UpsertStep =>
       LET payload == ctlLog'[Len(ctlLog')].payload IN
       \A i \in ElementsById(domNodes', payload.id) : domNodes'[i].text = payload.text]_vars

\* C35: the render-target upsert is insert-or-replace by id: after an upsert
\* the render target holds exactly one element for the id, the element shows
\* the payload's text, and it is marked final exactly when some upsert for
\* its id was final
C35_UpsertById ==
  [][UpsertStep =>
       LET payload == ctlLog'[Len(ctlLog')].payload
           hits == ElementsById(domNodes', payload.id)
       IN /\ Cardinality(hits) = 1
          /\ \A i \in hits :
               /\ domNodes'[i].text = payload.text
               /\ domNodes'[i].final =
                    (\E k \in 1..Len(ctlLog') :
                       /\ IsType(ctlLog'[k], "new_transcript")
                       /\ ctlLog'[k].payload.id = payload.id)]_vars

(***************************************************************************)
(* Properties: the producers and their transcription sockets               *)
(***************************************************************************)
\* the transcription sockets of channel ch that are Connecting or Open
LiveAudioSockets(ch) ==
  {s \in AudioSocketIds(ch) : audioSockets[ch][s] \in {"CONNECTING", "OPEN"}}

\* C18: a channel never has more than one transcription socket that is
\* Connecting or Open, and never more than one capture graph.
C18_OneSocketOneGraph ==
  \A ch \in Channels :
    /\ Cardinality(LiveAudioSockets(ch)) <= 1
    /\ graphs[ch] <= 1

\* the microphone ref of ch holds null: stop returned and start was not
\* called since (or the channel was never started)
Stopped(ch) == micRef[ch].kind = "null"

\* C19: while a channel is stopped (its stop operation returned and start
\* was not called again), no audio frame is sent on a transcription socket
\* of that channel.
C19_StopHaltsFrames ==
  [][\A ch \in Channels : Stopped(ch) => framesSent'[ch] = framesSent[ch]]_vars

\* the channel was started and stop returned since: the ref holds null, or
\* the plain object a Turn event stored in place of null
AfterFirstStop(ch) == micRef[ch].kind # "mic" /\ Len(audioSockets[ch]) > 0

\* the channel is exactly as a completed stop leaves it
AsStopLeftIt(ch) == micRef[ch] = NullMic /\ audioWsRef[ch] = 0

\* C20: a second stop, in any state reachable after the first one, completes
\* without error (no such state makes stop throw), emits no block, and
\* leaves the channel as the first stop left it.
C20_StopIdempotent ==
  /\ [](\A ch \in Channels : AfterFirstStop(ch) => ~StopThrows(ch))
  /\ [][\A ch \in Channels :
          (StopRecording(ch) /\ AfterFirstStop(ch))
            => /\ emitted' = emitted
               /\ AsStopLeftIt(ch)
                    => UNCHANGED <<micRef, audioWsRef, audioSockets, graphs>>]_vars

\* C37: the transcription channel never reconnects by itself: a
\* transcription socket is created only by a start call (startCandidateRecording,
\* or startHrRecording resuming after its await), never by the step in
\* which a socket errors or closes
C37_NoSelfReconnect ==
  [][\A ch \in Channels :
       Len(audioSockets'[ch]) # Len(audioSockets[ch]) =>
         /\ Len(audioSockets'[ch]) = Len(audioSockets[ch]) + 1
         /\ \/ ch = "CANDIDATE" /\ StartCandidateRecording(MaxRestarts)
            \/ ch = "HR" /\ HrPermission(TRUE)]_vars

\* the only socket of a channel has closed after an error and the channel
\* has no socket that is CONNECTING or OPEN
C37_Witness ==
  /\ audioSockets["HR"] = <<"CLOSED">>
  /\ error = "HR Audio connection failed"
  /\ pendingPermission = 0

(***************************************************************************)
(* Properties: the frames of a producer                                    *)
(***************************************************************************)
\* every frame handed to a callback so far
FramesDelivered(ch) == {frameLog[ch][i] : i \in 1..Len(frameLog[ch])}

\* C21: every frame a producer hands to its callback contains exactly
\* floor(16000 * 0.1) = 1600 samples, 3200 bytes, whatever the chunk sizes.
C21_FrameSize ==
  \A ch \in Channels : \A f \in FramesDelivered(ch) :
    /\ f.samples = TotalSamples
    /\ f.bytes = 2 * TotalSamples

\* startRecording of the microphone object in the ref returned normally
RecordingStarted(ch) == micRef[ch].kind = "mic" /\ micRef[ch].recording

\* C22: a producer whose recording started either can deliver frames to its
\* callback or has an error set: never started, silent and without error.
C22_NoSilentFallback ==
  \A ch \in Channels :
    RecordingStarted(ch) => (workletAvailable \/ error # "null")

\* the step is a start of channel ch: startHrRecording up to its await, or
\* startCandidateRecording
StartStep(ch) ==
  /\ micRef'[ch] = NewMic
  /\ \/ Len(audioSockets'[ch]) > Len(audioSockets[ch])
     \/ ch = "HR" /\ pendingPermission' > pendingPermission

\* the step hands a frame of channel ch to the frame callback
FrameStep(ch) == Len(frameLog'[ch]) = Len(frameLog[ch]) + 1

RefSocketConnecting(ch) ==
  audioWsRef[ch] # 0 /\ audioSockets[ch][audioWsRef[ch]] = "CONNECTING"

\* C36: frames are sent only on an OPEN socket and only after it opened: no
\* frame is produced while the channel's socket is CONNECTING, a frame
\* produced while the socket is OPEN is sent, and a frame produced while it
\* is not OPEN is dropped
C36_FramesOnlyOnOpen ==
  [][\A ch \in Channels :
       FrameStep(ch) =>
         /\ ~RefSocketConnecting(ch)
         /\ framesSent'[ch] = framesSent[ch] + (IF RefSocketOpen(ch) THEN 1 ELSE 0)]_vars

\* the sample number up to which the producer in the ref of channel ch has
\* emitted: the end of its latest frame, or its first sample when it has
\* emitted none
EmittedEnd(ch) ==
  LET n == Len(frameLog[ch]) IN
    IF n > 0 /\ frameLog[ch][n].first >= captureStart[ch]
      THEN frameLog[ch][n].first + frameLog[ch][n].samples
      ELSE captureStart[ch]

\* C40: the frames of a producer partition the captured stream: each frame
\* begins at the sample where the previous one ended (the first at the first
\* captured sample), so that no sample is emitted twice and none is skipped, and
\* after an emission the queue holds exactly the captured samples not yet
\* emitted
C40_FramesPartitionStream ==
  [][\A ch \in Channels :
       FrameStep(ch) =>
         LET f == frameLog'[ch][Len(frameLog'[ch])]
             q == audioBufferQueue'[ch]
         IN  /\ f.first = EmittedEnd(ch)
             /\ q.base + q.off = f.first + f.samples
             /\ q.base + q.off + q.len = captured'[ch]]_vars

(***************************************************************************)
(* Properties: the two channels                                            *)
(***************************************************************************)
OtherChannel(ch) == IF ch = "HR" THEN "CANDIDATE" ELSE "HR"

\* the assembler state of a channel: block id, slots, committed text, sent flag
AssemblerState(ch) ==
  <<blockId[ch], micRef[ch].activeTurns, blockTranscript[ch], blockSent[ch]>>

\* the ControlChannel's connection state and reconnect counters
ConnectionState ==
  <<sockets, wsRef, isWebSocketConnected, reconnectAttempts, reconnectDelay,
    pendingTimers>>

\* a failure of the producer of channel ch: a start that finds no credential,
\* a denied permission prompt, an error or close of a transcription socket
ProducerFailure(ch) ==
  \/ ch = "HR" /\ ~assemblyAIToken /\ StartHrRecording(MaxStarts)
  \/ ch = "HR" /\ HrPermission(FALSE)
  \/ ch = "CANDIDATE" /\ ~assemblyAIToken /\ StartCandidateRecording(MaxStarts)
  \/ \E s \in AudioSocketIds(ch), failed \in BOOLEAN : AudioClose(ch, s, failed)

\* C24: a failure of one channel's producer leaves the other channel's
\* assembler state and emitted blocks unchanged, and leaves the
\* ControlChannel's connection state and reconnect counters unchanged.
C24_ChannelIndependence ==
  [][\A ch \in Channels :
       ProducerFailure(ch)
         => /\ AssemblerState(OtherChannel(ch))' = AssemblerState(OtherChannel(ch))
            /\ BlocksOf(OtherChannel(ch))' = BlocksOf(OtherChannel(ch))
            /\ ConnectionState' = ConnectionState]_vars

\* a producer of one channel has failed while the other channel holds an
\* utterance in flight and the control socket is open
C24_Witness ==
  \E ch \in Channels :
    /\ \E s \in AudioSocketIds(ch) : audioSockets[ch][s] = "CLOSED"
    /\ micRef[OtherChannel(ch)].activeTurns # NoTurns
    /\ BlocksOf(OtherChannel(ch)) # << >>
    /\ CurrentOpen

\* the onmessage handler of channel ch processes a Turn event
TurnStep(ch) ==
  \E s \in AudioSocketIds(ch), msg \in PubEvents : AudioMessage(ch, s, msg, MaxDuoEvents)

ProducerStopped(ch) ==
  /\ micRef[ch].kind = "null"
  /\ graphs[ch] = 0
  /\ audioWsRef[ch] = 0

\* close(1000) has been called on the current control socket
ControlClosed == wsRef = 0 \/ sockets[wsRef].readyState \in {"CLOSING", "CLOSED"}

\* the HR transcription channel is started and its socket is OPEN
HrChannelOpen ==
  /\ micRef["HR"].kind = "mic"
  /\ audioWsRef["HR"] # 0
  /\ audioSockets["HR"][audioWsRef["HR"]] = "OPEN"

\* C14: an end request issued while the session is RUNNING leaves both
\* producers stopped, the control socket closed with code 1000 and the session ENDED.
C14_EndStopsEverything ==
  [][HandleStopInterview(MaxSesSent)
     => /\ interviewState' = "ENDED"
        /\ \A ch \in Channels : ProducerStopped(ch)'
        /\ ControlClosed']_vars

\* C23: when startHrRecording fails (no credential configured, or the
\* permission prompt is denied), the handler awaiting it does not treat the
\* microphone as started.
C23_AcquisitionFailureReported ==
  [][((HandleStartHrMic(MaxStarts) /\ ~assemblyAIToken) \/ HrMicStarted(FALSE))
       => ~hrMicOn']_vars

\* C15: once interviewState is ENDED it stays ENDED, whatever control message
\* arrives and whatever the user does.
C15_EndedIsTerminal ==
  [][interviewState = "ENDED" => interviewState' = "ENDED"]_vars

\* C16: handleStartInterview moves the session to RUNNING only if screen
\* sharing is active, the control socket is OPEN, and the HR transcription
\* channel is started with its socket OPEN.
C16_StartPreconditions ==
  [][(HandleStartInterview /\ interviewState' = "RUNNING")
     => (isSharing /\ CurrentState = "OPEN" /\ HrChannelOpen)]_vars

\* C17: every handleStartInterview call that does not move the session to
\* RUNNING leaves a non-empty reason in the page's error state.
C17_StartNeverSilent ==
  [][(HandleStartInterview /\ interviewState' # "RUNNING") => pageError' # ""]_vars

(***************************************************************************)
(* Properties: the ControlChannel                                          *)
(***************************************************************************)
\* some control socket has reached OPEN (every onopen sends a ping)
EverOpened == \E i \in 1..Len(outbox) : outbox[i].type = "ping"

RECURSIVE Pow2(_)
Pow2(n) == IF n = 0 THEN 1 ELSE 2 * Pow2(n - 1)

\* a control socket is live: CONNECTING or OPEN
LiveSockets == {s \in SocketIds : sockets[s].readyState \in {"CONNECTING", "OPEN"}}

\* the reconnect attempts are used up and nothing is left that could reconnect
TerminalDisconnected ==
  /\ timersSinceOpen = MaxReconnectAttempts
  /\ pendingTimers = 0
  /\ LiveSockets = {}
  /\ ~isWebSocketConnected

\* every socket after the first was created by a reconnect timer: connect()
\* was not called while a reconnect was under way
TimerDriven == Len(sockets) <= 1 + Len(timerLog) - pendingTimers

C12_ConnectIdempotent ==
  [][(Connect(MaxCtlSockets) /\ wsRef \in LiveSockets)
     => /\ sockets' = sockets
        /\ wsRef' = wsRef
        /\ reconnectAttempts' = reconnectAttempts
        /\ reconnectDelay' = reconnectDelay
        /\ isWebSocketConnected' = isWebSocketConnected
        /\ pendingTimers' = pendingTimers
        /\ timerLog' = timerLog
        /\ outbox' = outbox]_vars

C12_Witness ==
  /\ lastCall = [op |-> "connect", did |-> FALSE]
  /\ wsRef \in LiveSockets
  /\ sockets[wsRef].readyState = "CONNECTING"
  /\ Len(sockets) = 1

\* the messages send() was called with that reached a control socket
AnalysisRequests == SelectSeq(outbox, LAMBDA m : m = AnalysisRequest)
\* the send() calls that returned true
AcceptedSends == SelectSeq(sendLog, LAMBDA c : c.ok)

\* C13: send(message) returns true exactly when the current control socket is
\* OPEN at the call, and then the message is dispatched at once; in every other
\* state it returns false and the message is dropped: at any time the messages
\* dispatched are exactly those of the calls that returned true.
C13_SendOnlyWhenOpen ==
  [][/\ Len(AnalysisRequests') = Len(AcceptedSends')
     /\ sendLog' # sendLog =>
          LET call == sendLog'[Len(sendLog')] IN
          /\ call.state = (IF wsRef = 0 THEN "none" ELSE sockets[wsRef].readyState)
          /\ call.ok <=> call.state = "OPEN"
          /\ outbox' = (IF call.ok THEN Append(outbox, AnalysisRequest) ELSE outbox)]_vars

\* Scenario D and after: a send() on a CONNECTING socket returned false, the
\* socket then opened, dropped and was replaced by an open one, and the
\* message was never dispatched
C13_Witness ==
  /\ Len(sendLog) = 1
  /\ sendLog[1] = [state |-> "CONNECTING", ok |-> FALSE]
  /\ Len(sockets) = 2
  /\ sockets[2].readyState = "OPEN"
  /\ wsRef = 2
  /\ Len(outbox) = 2
  /\ AnalysisRequests = << >>

\* C7: when a control socket opens after reconnect attempts, the attempt
\* count is reset to 0 and the reconnect delay is reset to 3000 ms.
C7_OpenResetsBackoff ==
  [][\A s \in SocketIds :
       (CtlOpen(s) /\ timerLog # << >>)
       => (reconnectAttempts' = 0 /\ reconnectDelay' = InitialReconnectDelay)]_vars

\* C8: after disconnect() or the unmount cleanup, and until connect() is
\* called again, no control socket is created, pending reconnect timer or not.
C8_NoSocketAfterDisconnect ==
  [][(disconnectCalled /\ disconnectCalled') => Len(sockets') = Len(sockets)]_vars

\* C9: while no control socket has opened, the k-th reconnect timer armed
\* (k = 1..5) has delay min(3000 * 2^(k-1), 30000): 3000, 6000, 12000, 24000, 30000.
C9_BackoffSchedule ==
  ~EverOpened =>
    /\ Len(timerLog) <= MaxReconnectAttempts
    /\ \A k \in 1..Len(timerLog) :
         timerLog[k] = Min(InitialReconnectDelay * Pow2(k - 1), MaxReconnectDelay)

C9_Witness ==
  /\ ~EverOpened
  /\ timerLog = <<3000, 6000, 12000, 24000, 30000>>

\* C10: a close event with code 1000 arms no reconnect timer, leaves the attempt
\* count and the reconnect delay unchanged, and only sets isWebSocketConnected false.
C10_NormalCloseNoReconnect ==
  [][\A s \in SocketIds :
       CtlClose(s, NormalClosure)
       => /\ pendingTimers' = pendingTimers
          /\ timerLog' = timerLog
          /\ reconnectAttempts' = reconnectAttempts
          /\ reconnectDelay' = reconnectDelay
          /\ isWebSocketConnected' = FALSE
          /\ wsRef' = wsRef
          /\ outbox' = outbox]_vars

C10_Witness ==
  /\ lastCloseCode = NormalClosure
  /\ reconnectDelay > InitialReconnectDelay
  /\ reconnectAttempts > 0
  /\ pendingTimers = 0

\* the connected flag is set only while the socket in wsRef is OPEN
FlagOnlyWhenOpen == isWebSocketConnected => CurrentOpen

\* a set flag whose socket is OPEN is cleared only in a step that closes that
\* socket, and stays set while that socket stays the OPEN socket of the ref
FlagHeldWhileOpen ==
  (isWebSocketConnected /\ CurrentOpen /\ sockets'[wsRef].readyState = "OPEN")
    => isWebSocketConnected'

\* C38: the connected flag matches the socket: isWebSocketConnected is true only
\* if the control socket in wsRef is OPEN, and once that socket has opened the
\* flag stays true until that same socket closes or errors, whatever connect(),
\* disconnect(), reconnect timers and events of older sockets do
C38_ConnectedFlagMatchesSocket ==
  [](FlagOnlyWhenOpen) /\ [][FlagHeldWhileOpen]_vars

\* C39: at most one control socket created by the hook is CONNECTING or OPEN at
\* any time, under every interleaving of connect(), disconnect(), unmount,
\* reconnect timers and socket events
C39_OneLiveControlSocket == Cardinality(LiveSockets) <= 1

\* disconnect() was followed by connect(): the older socket is still CLOSING
\* while its replacement is OPEN
C39_Witness ==
  /\ Len(sockets) >= 2
  /\ sockets[1].readyState = "CLOSING"
  /\ sockets[2].readyState = "OPEN"
  /\ wsRef = 2

====
